---- MODULE Spec2Model ----
(***************************************************************************)
(* A model of pytest_bdd/steps.py: the step decorators (given / when /     *)
(* then, _step_decorator), the name allocator (find_unique_name) and the   *)
(* runtime injector (inject_fixture and the finalizer it registers).       *)
(*                                                                         *)
(* Python objects are modelled by value plus an identity field: a          *)
(* FixtureDef is a record with a fresh "id", a dict is a function whose    *)
(* DOMAIN is the dict's key set, a list is a sequence.                     *)
(***************************************************************************)
EXTENDS Integers, Sequences, FiniteSets, TLC

VARIABLES
    \* ---- runtime injector (one test invocation on a fixture manager) ----
    arg2fixturedefs,   \* request._fixturemanager._arg2fixturedefs : dict name -> list of FixtureDef
    fixture_defs,      \* request._fixture_defs : dict name -> FixtureDef or None
    names_closure,     \* request._pyfuncitem._fixtureinfo.names_closure : list of names
    finalizers,        \* the finalizer stack of the invocation (request.addfinalizer)
    fd_count,          \* number of FixtureDef objects constructed so far (object identity)
    phase,             \* "call" while steps run, "teardown" once the test has finished
    raised,            \* exceptions raised by finalizers so far (collected by the host)
    finished,          \* finalizers that have already run, in the order they ran
    resolved,          \* outcome of the latest request.getfixturevalue(name)
    pre,               \* history: the bindings when the invocation started
    earlier,           \* history: per finished invocation, the finalizers it ran
    \* ---- step registry of one declaring module ----
    caller_locals,     \* the declaring module's namespace: ordered dict name -> value
    decorated,         \* history: the decorations applied so far, in order
    returned,          \* what the latest decorator application returned
    invoked,           \* log of step-implementation invocations
    match_calls,       \* number of parser matches run so far
    step_count,        \* number of step lines executed so far
    last_step,         \* the latest executed step line and what ran for it
    \* ---- name allocator as a pure function ----
    fu_name, fu_seen, fu_result

injVars  == <<arg2fixturedefs, fixture_defs, names_closure, finalizers, fd_count,
              phase, raised, finished, resolved, pre, earlier>>
regVars  == <<caller_locals, decorated, returned, invoked, match_calls, step_count, last_step>>
fuVars   == <<fu_name, fu_seen, fu_result>>
vars     == <<injVars, regVars, fuVars>>

-----------------------------------------------------------------------------
(* Bounds of the model *)
MaxInjects == 3        \* inject_fixture calls per invocation
MaxSuffix == 2         \* largest numeric suffix present in the name universe
MaxDecorations == 2    \* decorator applications per declaring module
MaxSteps == 1          \* step lines executed per test
MaxReruns == 1         \* finalizers run a second time during an abnormal teardown
MaxInvocations == 2    \* test invocations run one after the other in a session

-----------------------------------------------------------------------------
(* Python dict and list helpers *)

EmptyDict == [k \in {} |-> 0]

DictSet(d, k, v) == [x \in (DOMAIN d) \cup {k} |-> IF x = k THEN v ELSE d[x]]

InList(l, x) == \E i \in 1..Len(l) : l[i] = x

\* list.remove(x): drops the first occurrence of x (the caller checks x is present)
ListRemove(l, x) ==
    LET i == CHOOSE j \in 1..Len(l) : l[j] = x /\ \A k \in 1..(j-1) : l[k] # x
    IN  [k \in 1..(Len(l)-1) |-> IF k < i THEN l[k] ELSE l[k+1]]

-----------------------------------------------------------------------------
(* The name allocator *)

\* f"{name}_{i}"
suffixed(name, i) == name \o "_" \o ToString(i)

RECURSIVE count_from(_, _, _)
\* lines 139-142: for i in count(start), the first f"{name}_{i}" not in seen
count_from(name, seen, i) ==
    IF suffixed(name, i) \notin seen THEN suffixed(name, i)
    ELSE count_from(name, seen, i + 1)

\* mutant: the numbering starts at 0 and the unsuffixed name is never tried
find_unique_name_always_suffixed(name, seen) ==
    count_from(name, seen, 0)

\* mutant: the membership test is left out and the name is returned as it is
find_unique_name_unchecked(name, seen) ==
    name

\* lines 128-142
find_unique_name(name, seen) ==
    IF name \notin seen THEN name ELSE count_from(name, seen, 1)

-----------------------------------------------------------------------------
(* FixtureDef objects *)

\* Python's None, where a FixtureDef reference is expected
None == [id |-> 0, argname |-> "None", func |-> "None", cached_result |-> "None"]

NoCache == "None"

\* FixtureDef(fixturemanager=..., argname=arg, func=lambda: value, ...); a new
\* FixtureDef has cached_result None.
FixtureDef(id, arg, value) ==
    [id |-> id, argname |-> arg, func |-> value, cached_result |-> NoCache]

-----------------------------------------------------------------------------
(* The runtime injector: inject_fixture and its finalizer.  The operators  *)
(* work on a record r of the invocation's state so that a step execution   *)
(* can perform several injections in a row.                                *)

Req == [arg2fixturedefs |-> arg2fixturedefs, fixture_defs |-> fixture_defs,
        names_closure |-> names_closure, finalizers |-> finalizers,
        fd_count |-> fd_count]

\* The bindings the round-trip claims compare
Bindings(r) == [arg2fixturedefs |-> r.arg2fixturedefs,
                fixture_defs |-> r.fixture_defs,
                names_closure |-> r.names_closure]

\* request.fixturenames, membership only: the host's property lists names_closure
\* followed by the keys of request._fixture_defs that are not in it.
fixturenames(r) ==
    {r.names_closure[i] : i \in 1..Len(r.names_closure)} \cup DOMAIN r.fixture_defs

\* mutant: line 205 left out, the cached result is never set
new_fd_uncached(r, arg, value) ==
    FixtureDef(r.fd_count + 1, arg, value)

\* lines 197-205: the FixtureDef with its cached result already set
new_fd(r, arg, value) ==
    [FixtureDef(r.fd_count + 1, arg, value) EXCEPT !.cached_result = value]

\* mutant: request._fixture_defs is rebound to a dict holding only arg
inject_fixture_rebinds_defs(r, arg, value) ==
    LET fd == new_fd(r, arg, value)
        old_fd == IF arg \in DOMAIN r.fixture_defs THEN r.fixture_defs[arg] ELSE None
        add_fixturename == arg \notin fixturenames(r)
        fin == [arg |-> arg, fd |-> fd, old_fd |-> old_fd,
                add_fixturename |-> add_fixturename, before |-> Bindings(r)]
        defs == IF arg \in DOMAIN r.arg2fixturedefs THEN r.arg2fixturedefs[arg] ELSE <<>>
    IN  [arg2fixturedefs |-> DictSet(r.arg2fixturedefs, arg, Append(defs, fd)),
         fixture_defs |-> DictSet(EmptyDict, arg, fd),
         names_closure |-> IF add_fixturename THEN Append(r.names_closure, arg)
                           ELSE r.names_closure,
         finalizers |-> Append(r.finalizers, fin),
         fd_count |-> r.fd_count + 1]

\* mutant: the manager's list for arg is replaced by [fd] instead of extended
inject_fixture_replaces_list(r, arg, value) ==
    LET fd == new_fd(r, arg, value)
        old_fd == IF arg \in DOMAIN r.fixture_defs THEN r.fixture_defs[arg] ELSE None
        add_fixturename == arg \notin fixturenames(r)
        fin == [arg |-> arg, fd |-> fd, old_fd |-> old_fd,
                add_fixturename |-> add_fixturename, before |-> Bindings(r)]
    IN  [arg2fixturedefs |-> DictSet(r.arg2fixturedefs, arg, <<fd>>),
         fixture_defs |-> DictSet(r.fixture_defs, arg, fd),
         names_closure |-> IF add_fixturename THEN Append(r.names_closure, arg)
                           ELSE r.names_closure,
         finalizers |-> Append(r.finalizers, fin),
         fd_count |-> r.fd_count + 1]

\* lines 207-225.  A finalizer is the closure fin: it captures arg, fd, old_fd and
\* add_fixturename.  Its field "before" is history only (the bindings right before
\* this call) and is read by no operation.
inject_fixture(r, arg, value) ==
    LET fd == new_fd(r, arg, value)
        old_fd == IF arg \in DOMAIN r.fixture_defs THEN r.fixture_defs[arg] ELSE None
        add_fixturename == arg \notin fixturenames(r)
        fin == [arg |-> arg, fd |-> fd, old_fd |-> old_fd,
                add_fixturename |-> add_fixturename, before |-> Bindings(r)]
        defs == IF arg \in DOMAIN r.arg2fixturedefs THEN r.arg2fixturedefs[arg] ELSE <<>>
    IN  [arg2fixturedefs |-> DictSet(r.arg2fixturedefs, arg, Append(defs, fd)),
         fixture_defs    |-> DictSet(r.fixture_defs, arg, fd),
         names_closure   |-> IF add_fixturename THEN Append(r.names_closure, arg)
                             ELSE r.names_closure,
         finalizers      |-> Append(r.finalizers, fin),
         fd_count        |-> r.fd_count + 1]

\* lines 210-215: the body of fin, run on state r.  The result is the state it
\* leaves and the exception it raised ("" when it returned normally).  A statement
\* that raises leaves the effects of the statements before it in place.
\* mutant: the definition that was active before the injection is not put back
run_fin_no_restore(r, f) ==
    IF f.arg \notin DOMAIN r.arg2fixturedefs THEN [req |-> r, exc |-> "KeyError"]
    ELSE IF ~InList(r.arg2fixturedefs[f.arg], f.fd) THEN [req |-> r, exc |-> "ValueError"]
    ELSE LET r1 == [r EXCEPT !.arg2fixturedefs = DictSet(@, f.arg, ListRemove(@[f.arg], f.fd))]
         IN  IF ~f.add_fixturename THEN [req |-> r1, exc |-> ""]
             ELSE IF ~InList(r1.names_closure, f.arg) THEN [req |-> r1, exc |-> "ValueError"]
             ELSE [req |-> [r1 EXCEPT !.names_closure = ListRemove(@, f.arg)], exc |-> ""]

\* mutant: the injected definition stays in the manager's list
run_fin_keeps_definition(r, f) ==
    IF f.arg \notin DOMAIN r.arg2fixturedefs THEN [req |-> r, exc |-> "KeyError"]
    ELSE IF ~InList(r.arg2fixturedefs[f.arg], f.fd) THEN [req |-> r, exc |-> "ValueError"]
    ELSE LET r1 == [r EXCEPT !.fixture_defs = DictSet(@, f.arg, f.old_fd)]
         IN  IF ~f.add_fixturename THEN [req |-> r1, exc |-> ""]
             ELSE IF ~InList(r1.names_closure, f.arg) THEN [req |-> r1, exc |-> "ValueError"]
             ELSE [req |-> [r1 EXCEPT !.names_closure = ListRemove(@, f.arg)], exc |-> ""]

run_fin(r, f) ==
    IF f.arg \notin DOMAIN r.arg2fixturedefs
    THEN [req |-> r, exc |-> "KeyError"]
    ELSE IF ~InList(r.arg2fixturedefs[f.arg], f.fd)
    THEN [req |-> r, exc |-> "ValueError"]
    ELSE LET r1 == [r EXCEPT
                     !.arg2fixturedefs = DictSet(@, f.arg, ListRemove(@[f.arg], f.fd)),
                     !.fixture_defs = DictSet(@, f.arg, f.old_fd)]
         IN  IF ~f.add_fixturename
             THEN [req |-> r1, exc |-> ""]
             ELSE IF ~InList(r1.names_closure, f.arg)
             THEN [req |-> r1, exc |-> "ValueError"]
             ELSE [req |-> [r1 EXCEPT !.names_closure = ListRemove(@, f.arg)],
                   exc |-> ""]

\* request.getfixturevalue(arg) for a name the request already holds a definition
\* of: the definition's cached result is returned and its func is not called.
getfixturevalue(r, arg) == r.fixture_defs[arg].cached_result

-----------------------------------------------------------------------------
(* Inputs *)

Args == {"foo", "bar", "request"}     \* names injected
Values == {"v1", "v2"}                \* values injected

\* The definition the manager holds for name a before the invocation
prior_fd(a) == [id |-> IF a = "foo" THEN 0 - 1 ELSE 0 - 2, argname |-> a,
                func |-> "old", cached_result |-> "old"]

RECURSIVE SeqsOver(_)
\* every duplicate-free list of all the names in S
SeqsOver(S) ==
    IF S = {} THEN {<<>>}
    ELSE UNION {{<<x>> \o t : t \in SeqsOver(S \ {x})} : x \in S}

-----------------------------------------------------------------------------
(* The invocation: steps inject and resolve, then the host tears down *)

\* the parts of the model a specification does not exercise stay as constructed
RegIdle ==
    /\ caller_locals = <<>>
    /\ decorated = <<>>
    /\ returned = "None"
    /\ invoked = <<>>
    /\ match_calls = 0
    /\ step_count = 0
    /\ last_step = <<>>

FuIdle ==
    /\ fu_name = ""
    /\ fu_seen = {}
    /\ fu_result = ""

InitInject ==
    \* "foo" starts in any of its possible states: defined by the manager or not,
    \* already set up in this request or not, in the closure or not; "bar" is either
    \* an ordinary fixture of the test (defined, set up, in the closure) or unknown
    /\ \E foo_defined \in BOOLEAN, bar_known \in BOOLEAN :
         LET defined == (IF foo_defined THEN {"foo"} ELSE {})
                            \cup (IF bar_known THEN {"bar"} ELSE {})
         IN  /\ arg2fixturedefs = [a \in defined |-> <<prior_fd(a)>>]
             /\ \E foo_bound \in (IF foo_defined THEN BOOLEAN ELSE {FALSE}) :
                  fixture_defs = [a \in (IF foo_bound THEN {"foo"} ELSE {})
                                          \cup (IF bar_known THEN {"bar"} ELSE {})
                                    |-> prior_fd(a)]
             /\ \E foo_reach \in BOOLEAN :
                  names_closure \in SeqsOver((IF foo_reach THEN {"foo"} ELSE {})
                                                \cup (IF bar_known THEN {"bar"} ELSE {}))
    /\ finalizers = <<>>
    /\ fd_count = 0
    /\ phase = "call"
    /\ raised = <<>>
    /\ finished = <<>>
    /\ resolved = [arg |-> "None", value |-> "None"]
    /\ pre = [arg2fixturedefs |-> arg2fixturedefs, fixture_defs |-> fixture_defs,
              names_closure |-> names_closure]
    /\ earlier = <<>>
    /\ RegIdle
    /\ FuIdle

SetReq(r) ==
    /\ arg2fixturedefs' = r.arg2fixturedefs
    /\ fixture_defs' = r.fixture_defs
    /\ names_closure' = r.names_closure
    /\ finalizers' = r.finalizers
    /\ fd_count' = r.fd_count

\* a step publishes a value: inject_fixture(request, arg, value)
Inject(arg, value) ==
    /\ phase = "call"
    /\ fd_count < MaxInjects
    /\ SetReq(inject_fixture(Req, arg, value))
    /\ UNCHANGED <<phase, raised, finished, resolved, pre, earlier, regVars, fuVars>>

\* a later step, the test body or teardown code requests arg; the request holds a
\* definition of it
Resolve(arg) ==
    /\ phase \in {"call", "teardown"}
    /\ arg \in DOMAIN fixture_defs
    /\ fixture_defs[arg] # None
    /\ resolved' = [arg |-> arg, value |-> getfixturevalue(Req, arg)]
    /\ UNCHANGED <<arg2fixturedefs, fixture_defs, names_closure, finalizers,
                   fd_count, phase, raised, finished, pre, earlier, regVars, fuVars>>

\* the test function returns (or fails): the host starts the teardown
FinishTest ==
    /\ phase = "call"
    /\ phase' = "teardown"
    /\ UNCHANGED <<arg2fixturedefs, fixture_defs, names_closure, finalizers,
                   fd_count, raised, finished, resolved, pre, earlier, regVars, fuVars>>

\* the host pops the most recently registered finalizer and runs it; an exception
\* is collected and the teardown goes on
RunFinalizer ==
    /\ phase = "teardown"
    /\ finalizers # <<>>
    /\ LET f == finalizers[Len(finalizers)]
           rest == [Req EXCEPT !.finalizers = SubSeq(@, 1, Len(@) - 1)]
           out == run_fin(rest, f)
       IN  /\ SetReq(out.req)
           /\ raised' = IF out.exc = "" THEN raised ELSE Append(raised, out.exc)
           /\ finished' = Append(finished, f)
    /\ UNCHANGED <<phase, resolved, pre, earlier, regVars, fuVars>>

NextInject ==
    \/ \E arg \in Args, value \in Values : Inject(arg, value)
    \/ \E arg \in Args : Resolve(arg)
    \/ FinishTest
    \/ RunFinalizer

SpecInject ==
    InitInject /\ [][NextInject]_vars

\* Abnormal teardown: a finalizer that has already run is run once more
RerunFinalizer ==
    /\ phase = "teardown"
    /\ finished # <<>>
    /\ Len(raised) < MaxReruns
    /\ \E i \in 1..Len(finished) :
         LET out == run_fin(Req, finished[i])
         IN  /\ SetReq(out.req)
             /\ raised' = IF out.exc = "" THEN raised ELSE Append(raised, out.exc)
    /\ UNCHANGED <<phase, finished, resolved, pre, earlier, regVars, fuVars>>

NextAbnormal ==
    \/ \E arg \in Args, value \in Values : Inject(arg, value)
    \/ \E arg \in Args : Resolve(arg)
    \/ FinishTest
    \/ RunFinalizer
    \/ RerunFinalizer

SpecAbnormal ==
    InitInject /\ [][NextAbnormal]_vars

-----------------------------------------------------------------------------
(* A session: invocations run one after the other on one fixture manager *)

\* The definition request.getfixturevalue(arg) yields the value of: the one the
\* request holds, else the last one the manager lists for arg, else None (the
\* lookup fails).
active_fixturedef(r, arg) ==
    IF arg \in DOMAIN r.fixture_defs THEN r.fixture_defs[arg]
    ELSE IF arg \in DOMAIN r.arg2fixturedefs /\ r.arg2fixturedefs[arg] # <<>>
    THEN r.arg2fixturedefs[arg][Len(r.arg2fixturedefs[arg])]
    ELSE None

\* a step or the test body requests a name the request holds no definition of: the
\* host looks it up in the manager and remembers the definition it found
ResolveUnbound(arg) ==
    /\ phase = "call"
    /\ arg \notin DOMAIN fixture_defs
    /\ LET fd == active_fixturedef(Req, arg)
       IN  IF fd = None
           THEN /\ resolved' = [arg |-> arg, value |-> "FixtureLookupError"]
                /\ fixture_defs' = fixture_defs
           ELSE /\ resolved' = [arg |-> arg, value |-> fd.cached_result]
                /\ fixture_defs' = DictSet(fixture_defs, arg, fd)
    /\ UNCHANGED <<arg2fixturedefs, names_closure, finalizers, fd_count, phase,
                   raised, finished, pre, earlier, regVars, fuVars>>

\* the teardown is over and the next test of the session starts: a new request
\* (no definitions yet) on the same manager and the same fixture closure
NextInvocation ==
    /\ phase = "teardown"
    /\ finalizers = <<>>
    /\ Len(earlier) + 1 < MaxInvocations
    /\ earlier' = Append(earlier, finished)
    /\ finished' = <<>>
    /\ fixture_defs' = EmptyDict
    /\ phase' = "call"
    /\ raised' = <<>>
    /\ resolved' = [arg |-> "None", value |-> "None"]
    /\ pre' = [arg2fixturedefs |-> arg2fixturedefs, fixture_defs |-> EmptyDict,
               names_closure |-> names_closure]
    /\ UNCHANGED <<arg2fixturedefs, names_closure, finalizers, fd_count,
                   regVars, fuVars>>

\* definitions are told apart by identity, so the session injects one value
SessionValues == {"v1"}

NextSession ==
    \/ \E arg \in Args, value \in SessionValues : Inject(arg, value)
    \/ \E arg \in Args : ResolveUnbound(arg)
    \/ FinishTest
    \/ RunFinalizer
    \/ NextInvocation

SpecSession ==
    InitInject /\ [][NextSession]_vars

-----------------------------------------------------------------------------
(* Claims about the runtime injector *)

\* a dict lookup as an option: {} when the key is absent, {value} when present
Entry(d, k) == IF k \in DOMAIN d THEN {d[k]} ELSE {}

TornDown == phase = "teardown" /\ finalizers = <<>>

\* C1: once every finalizer of the invocation has run in reverse registration
\* order, names_closure, request._fixture_defs and the manager's _arg2fixturedefs
\* are identical to what they were before the first injection; a name that was
\* absent is absent again.
C1_RoundTripRestoration ==
    TornDown => Bindings(Req) = pre

\* the finalizers still to run that were registered for name a, oldest first
LiveFor(a) == SelectSeq(finalizers, LAMBDA f : f.arg = a)

\* C2 (as stated): between an inject_fixture(request, name, value) call and its
\* finalizer, every resolution of name yields that call's value.
C2_ResolveYieldsInjected ==
    [][\A a \in Args : Resolve(a) =>
          \A i \in 1..Len(finalizers) :
              finalizers[i].arg = a => resolved'.value = finalizers[i].fd.func]_vars

\* C2 (amended): every resolution of name yields, from the cached result, the value
\* of the most recent inject_fixture call for name whose finalizer has not run.
C2_ResolveYieldsLatestInjected ==
    [][\A a \in Args : (Resolve(a) /\ LiveFor(a) # <<>>) =>
          /\ resolved'.arg = a
          /\ resolved'.value = LiveFor(a)[Len(LiveFor(a))].fd.func]_vars

\* C2 witness: a name bound to an old value was injected twice with different
\* values and has been resolved to the second of them
C2_Witness ==
    /\ Len(LiveFor("foo")) = 2
    /\ LiveFor("foo")[1].old_fd = prior_fd("foo")
    /\ LiveFor("foo")[1].fd.func = "v1"
    /\ LiveFor("foo")[2].fd.func = "v2"
    /\ resolved = [arg |-> "foo", value |-> "v2"]

\* C3: when a name is injected two or more times, the state right after the k-th
\* call's finalizer (active definition and manager list of the name, reachable
\* set) equals the state right before the k-th call.
C3_StackedRestore ==
    (phase = "teardown" /\ finished # <<>>) =>
        LET f == finished[Len(finished)]
            calls == Len(SelectSeq(finished, LAMBDA g : g.arg = f.arg))
                     + Len(LiveFor(f.arg))
        IN  calls >= 2 =>
              /\ Entry(fixture_defs, f.arg) = Entry(f.before.fixture_defs, f.arg)
              /\ Entry(arg2fixturedefs, f.arg) = Entry(f.before.arg2fixturedefs, f.arg)
              /\ names_closure = f.before.names_closure

\* names the host reserves for itself
ReservedNames == {"request"}

\* C9: an inject_fixture call with a reserved name is rejected and leaves the
\* manager's definitions, the request's definitions, the reachable set and the
\* finalizer list unchanged.
C9_ReservedNameRejected ==
    [][\A a \in ReservedNames, v \in Values : Inject(a, v) =>
          UNCHANGED <<arg2fixturedefs, fixture_defs, names_closure, finalizers>>]_vars

\* C10: running a finalizer a second time raises nothing and leaves the bindings
\* as its first run left them.
C10_FinalizerIdempotent ==
    [][RerunFinalizer =>
          /\ raised' = raised
          /\ UNCHANGED <<arg2fixturedefs, fixture_defs, names_closure>>]_vars

-----------------------------------------------------------------------------
(* Step parsers.  A step text and a pattern are read word by word; a word  *)
(* of a pattern in braces is a named field.                                *)

split(text) ==
    CASE text = "the foo is bar"               -> <<"the", "foo", "is", "bar">>
      [] text = "the foo is very bar"          -> <<"the", "foo", "is", "very", "bar">>
      [] text = "the {first} is {second}"      -> <<"the", "{first}", "is", "{second}">>
      [] text = "the {first} is very {second}" -> <<"the", "{first}", "is", "very", "{second}">>

field_name(word) ==
    CASE word = "{first}" -> "first"
      [] word = "{second}" -> "second"
      [] OTHER -> ""

RECURSIVE join(_)
join(words) ==
    IF Len(words) = 1 THEN words[1] ELSE words[1] \o " " \o join(Tail(words))

NoMatch == [matched |-> FALSE, args |-> EmptyDict]

RECURSIVE match_words(_, _)
\* A templated pattern against a text: literal words must be equal, a field takes
\* one or more words, as few as let the rest of the pattern match, and the whole
\* text must be consumed.
match_words(pattern, text) ==
    IF pattern = <<>>
    THEN IF text = <<>> THEN [matched |-> TRUE, args |-> EmptyDict] ELSE NoMatch
    ELSE IF field_name(Head(pattern)) = ""
    THEN IF text # <<>> /\ Head(text) = Head(pattern)
         THEN match_words(Tail(pattern), Tail(text))
         ELSE NoMatch
    ELSE LET fits == {k \in 1..Len(text) :
                        match_words(Tail(pattern), SubSeq(text, k + 1, Len(text))).matched}
         IN  IF fits = {} THEN NoMatch
             ELSE LET k == CHOOSE x \in fits : \A y \in fits : x <= y
                      rest == match_words(Tail(pattern), SubSeq(text, k + 1, Len(text)))
                  IN  [matched |-> TRUE,
                       args |-> DictSet(rest.args, field_name(Head(pattern)),
                                        join(SubSeq(text, 1, k)))]

\* parser.parse_arguments / parser.is_matching: the exact-string parser matches
\* the equal text and extracts nothing, the templated parser extracts its fields
match(parser, text) ==
    IF parser.kind = "string"
    THEN [matched |-> parser.name = text, args |-> EmptyDict]
    ELSE match_words(split(parser.name), split(text))

\* get_parser(step_name): a bare string becomes an exact-string parser, a parser
\* object is used as it is
get_parser(step_name) ==
    IF step_name.kind = "str" THEN [kind |-> "string", name |-> step_name.name]
    ELSE step_name

-----------------------------------------------------------------------------
(* The step decorators *)

\* f"{StepNamePrefix.step_def}": the format of a plain Enum member is its str()
step_def == "StepNamePrefix.step_def"

\* lines 166-172: StepFunctionContext(...); id stands for the identity of the
\* object built by this decoration
StepFunctionContext(id, type, step_func, parser, converters, target_fixture) ==
    [id |-> id, type |-> type, step_func |-> step_func, parser |-> parser,
     converters |-> converters, target_fixture |-> target_fixture]

\* mutant: only the names of the steps registered so far count as taken
keys_of_steps(locals) ==
    {locals[i].name : i \in {j \in 1..Len(locals) : locals[j].value.kind = "fixture"}}

\* keys of an insertion-ordered dict kept as a list of [name, value] entries
keys(locals) == {locals[i].name : i \in 1..Len(locals)}

\* locals[name] = value: a new key is appended, an existing key keeps its place
setitem(locals, name, value) ==
    IF name \in keys(locals)
    THEN [i \in 1..Len(locals) |->
            IF locals[i].name = name THEN [name |-> name, value |-> value] ELSE locals[i]]
    ELSE Append(locals, [name |-> name, value |-> value])

\* pytest.fixture(name=fixture_step_name)(step_function_marker): a fixture whose
\* function returns context and carries it as _pytest_bdd_step_context
step_function_marker(fixture_step_name, context) ==
    [kind |-> "fixture", name |-> fixture_step_name, context |-> context]

\* line 160-161: converters defaults to an empty dict
default_converters(converters) ==
    IF converters = "None" THEN EmptyDict ELSE converters

\* mutant: the decorator returns the marker fixture instead of the function
decorator_returns_marker(locals, id, step_type, step_name, converters, target_fixture, func) ==
    LET parser == get_parser(step_name)
        fixture_step_name ==
            find_unique_name(step_def \o "_" \o step_type \o "_" \o parser.name, keys(locals))
    IN  [caller_locals |-> setitem(locals, fixture_step_name,
             step_function_marker(fixture_step_name,
                 StepFunctionContext(id, step_type, func, parser,
                                     default_converters(converters), target_fixture))),
         fixture_step_name |-> fixture_step_name,
         calls |-> <<>>, matches |-> 0,
         returned |-> fixture_step_name]

\* mutant: the name is allocated without looking at the names already in the scope
decorator_no_seen(locals, id, step_type, step_name, converters, target_fixture, func) ==
    LET parser == get_parser(step_name)
        fixture_step_name ==
            find_unique_name(step_def \o "_" \o step_type \o "_" \o parser.name, {})
    IN  [caller_locals |-> setitem(locals, fixture_step_name,
             step_function_marker(fixture_step_name,
                 StepFunctionContext(id, step_type, func, parser,
                                     default_converters(converters), target_fixture))),
         fixture_step_name |-> fixture_step_name,
         calls |-> <<>>, matches |-> 0,
         returned |-> func]

\* lines 163-184: decorator(func) of _step_decorator(step_type, step_name,
\* converters, target_fixture), applied in the module whose namespace is locals.
\* The result holds the namespace it leaves, what it returns, and the calls of
\* func and of parser matches it makes: it makes none.
decorator(locals, id, step_type, step_name, converters, target_fixture, func) ==
    LET parser == get_parser(step_name)
        context == StepFunctionContext(id, step_type, func, parser,
                                       default_converters(converters), target_fixture)
        fixture_step_name ==
            find_unique_name(step_def \o "_" \o step_type \o "_" \o parser.name, keys(locals))
    IN  [caller_locals |-> setitem(locals, fixture_step_name,
                                   step_function_marker(fixture_step_name, context)),
         fixture_step_name |-> fixture_step_name,
         calls |-> <<>>, matches |-> 0,
         returned |-> func]

-----------------------------------------------------------------------------
(* Inputs of the step registry *)

GIVEN == "given"
WHEN == "when"
THEN_ == "then"
Types == {GIVEN, WHEN, THEN_}

\* what a decorator is given as step name: a bare string or a parsers.parse object
StepNames ==
    {[kind |-> "str", name |-> "the foo is bar"],
     [kind |-> "parse", name |-> "the {first} is {second}"],
     [kind |-> "parse", name |-> "the {first} is very {second}"]}

\* the decorated functions with the target_fixture their decorators are given:
\* step_a publishes nothing, step_b is decorated with target_fixture="foo"
Usages == {[func |-> "step_a", target_fixture |-> "None"],
           [func |-> "step_b", target_fixture |-> "foo"]}

Texts == {"the foo is bar", "the foo is very bar"}

\* what a step function returns when it is called
return_value(func) == IF func = "step_b" THEN "injected foo" ELSE "None"

-----------------------------------------------------------------------------
(* Import of the declaring module, then execution of step lines *)

\* the invocation before any test of the module has started
InvIdle ==
    /\ arg2fixturedefs = EmptyDict
    /\ fixture_defs = EmptyDict
    /\ names_closure = <<>>
    /\ finalizers = <<>>
    /\ fd_count = 0
    /\ phase = "import"
    /\ raised = <<>>
    /\ finished = <<>>
    /\ resolved = [arg |-> "None", value |-> "None"]
    /\ pre = [arg2fixturedefs |-> EmptyDict, fixture_defs |-> EmptyDict,
              names_closure |-> <<>>]
    /\ earlier = <<>>

InitSteps ==
    \* the module has defined its scenario test function
    /\ caller_locals = <<[name |-> "test_example", value |-> [kind |-> "function"]]>>
    /\ decorated = <<>>
    /\ returned = "None"
    /\ invoked = <<>>
    /\ match_calls = 0
    /\ step_count = 0
    /\ last_step = <<>>
    /\ InvIdle
    /\ FuIdle

\* @given / @when / @then (...) applied to func while the module is imported
Decorate(step_type, step_name, target_fixture, func) ==
    /\ phase = "import"
    /\ Len(decorated) < MaxDecorations
    /\ LET out == decorator(caller_locals, Len(decorated) + 1, step_type, step_name,
                            "None", target_fixture, func)
       IN  /\ caller_locals' = out.caller_locals
           /\ returned' = out.returned
           /\ invoked' = invoked \o out.calls
           /\ match_calls' = match_calls + out.matches
           /\ decorated' = Append(decorated,
                  [name |-> out.fixture_step_name, id |-> Len(decorated) + 1,
                   type |-> step_type, step_name |-> step_name, func |-> func,
                   target_fixture |-> target_fixture])
    /\ UNCHANGED <<step_count, last_step, injVars, fuVars>>

given(step_name, target_fixture, func) == Decorate(GIVEN, step_name, target_fixture, func)
when(step_name, target_fixture, func) == Decorate(WHEN, step_name, target_fixture, func)
then(step_name, target_fixture, func) == Decorate(THEN_, step_name, target_fixture, func)

\* the module is imported and collected; a test of it starts
StartTest ==
    /\ phase = "import"
    /\ phase' = "call"
    /\ UNCHANGED <<arg2fixturedefs, fixture_defs, names_closure, finalizers, fd_count,
                   raised, finished, resolved, pre, earlier, regVars, fuVars>>

\* the step definitions registered in locals, in the order they were registered
step_contexts(locals) ==
    LET fixtures == SelectSeq(locals, LAMBDA e : e.value.kind = "fixture")
    IN  [i \in 1..Len(fixtures) |-> fixtures[i].value.context]

RECURSIVE run_matching(_, _, _, _)
\* Every context of the line's type is asked whether its parser matches the text;
\* each one that does has its function called with the extracted arguments and,
\* when it names a target fixture, its return value injected.
run_matching(contexts, type, text, acc) ==
    IF contexts = <<>> THEN acc
    ELSE LET c == Head(contexts)
             m == match(c.parser, text)
         IN  IF c.type # type
             THEN run_matching(Tail(contexts), type, text, acc)
             ELSE IF ~m.matched
             THEN run_matching(Tail(contexts), type, text,
                               [acc EXCEPT !.match_calls = @ + 1])
             ELSE run_matching(Tail(contexts), type, text,
                      [acc EXCEPT
                         !.match_calls = @ + 1,
                         !.ran = Append(@, [id |-> c.id, func |-> c.step_func,
                                            args |-> m.args]),
                         !.req = IF c.target_fixture = "None" THEN @
                                 ELSE inject_fixture(@, c.target_fixture,
                                                     return_value(c.step_func))])

\* the scenario presents the step line (type, text)
ExecuteStep(type, text) ==
    /\ phase = "call"
    /\ step_count < MaxSteps
    /\ LET out == run_matching(step_contexts(caller_locals), type, text,
                               [match_calls |-> match_calls, ran |-> <<>>, req |-> Req])
       IN  /\ SetReq(out.req)
           /\ match_calls' = out.match_calls
           /\ invoked' = invoked \o out.ran
           /\ last_step' = <<[type |-> type, text |-> text, ran |-> out.ran,
                              not_found |-> out.ran = <<>>]>>
    /\ step_count' = step_count + 1
    /\ UNCHANGED <<phase, raised, finished, resolved, pre, earlier,
                   caller_locals, decorated, returned, fuVars>>

NextSteps ==
    \/ \E n \in StepNames, u \in Usages : given(n, u.target_fixture, u.func)
    \/ \E n \in StepNames, u \in Usages : when(n, u.target_fixture, u.func)
    \/ \E n \in StepNames, u \in Usages : then(n, u.target_fixture, u.func)
    \/ StartTest
    \/ \E type \in Types, text \in Texts : ExecuteStep(type, text)

SpecSteps == InitSteps /\ [][NextSteps]_vars

-----------------------------------------------------------------------------
(* Claims about the step registry *)

\* the context a decoration is to build, from what the decorator was given
ContextOf(d) ==
    [id |-> d.id, type |-> d.type, step_func |-> d.func,
     parser |-> get_parser(d.step_name), converters |-> EmptyDict,
     target_fixture |-> d.target_fixture]

\* the entries of the declaring scope stored under name
EntriesNamed(name) ==
    {i \in 1..Len(caller_locals) : caller_locals[i].name = name}

\* C5: after any sequence of decorations in one scope, every decoration has its
\* own entry under an identifier no other decoration has, and the entry's accessor
\* returns the context that decoration built (type, parser, function, converters,
\* target fixture).
C5_OwnEntryPerDecoration ==
    \A i \in 1..Len(decorated) :
        /\ \A j \in 1..Len(decorated) : j # i => decorated[j].name # decorated[i].name
        /\ Cardinality(EntriesNamed(decorated[i].name)) = 1
        /\ \A e \in EntriesNamed(decorated[i].name) :
               /\ caller_locals[e].value.kind = "fixture"
               /\ caller_locals[e].value.context = ContextOf(decorated[i])

\* C5 witness: one function decorated twice with the same type and pattern
C5_Witness ==
    /\ Len(decorated) = 2
    /\ decorated[1].type = decorated[2].type
    /\ decorated[1].step_name = decorated[2].step_name
    /\ decorated[1].func = decorated[2].func
    /\ decorated[2].name = suffixed(decorated[1].name, 1)

\* C6: applying a decorator calls neither the function nor a parser match; it adds
\* one entry to the declaring scope and returns the function it was given.
C6_DecorationOnlyRegisters ==
    [][\A type \in Types, n \in StepNames, u \in Usages :
          Decorate(type, n, u.target_fixture, u.func) =>
              /\ returned' = u.func
              /\ invoked' = invoked
              /\ match_calls' = match_calls
              /\ Len(caller_locals') = Len(caller_locals) + 1
              /\ SubSeq(caller_locals', 1, Len(caller_locals)) = caller_locals
              /\ UNCHANGED injVars]_vars

\* C6 witness: a function has been decorated and nothing has been called
C6_Witness ==
    /\ Len(decorated) = 2
    /\ Len(caller_locals) = 3
    /\ returned = "step_a"
    /\ invoked = <<>>
    /\ match_calls = 0

\* the decorations whose type is the line's and whose parser matches its text
Matching(type, text) ==
    SelectSeq(decorated,
              LAMBDA d : d.type = type /\ match(get_parser(d.step_name), text).matched)

TheFooIs == [kind |-> "parse", name |-> "the {first} is {second}"]
TheFooIsVery == [kind |-> "parse", name |-> "the {first} is very {second}"]
FooBar == [x \in {"first", "second"} |-> IF x = "first" THEN "foo" ELSE "bar"]

-----------------------------------------------------------------------------
(* The name allocator as a pure function of its inputs *)

BaseNames == {"a", "b"}

\* the names that may already be taken
NameUniverse ==
    BaseNames \cup {suffixed(n, i) : n \in BaseNames, i \in 1..MaxSuffix}
              \cup {suffixed(suffixed("a", 1), 1)}

InitNames ==
    /\ fu_name \in BaseNames \cup {suffixed("a", 1)}
    /\ fu_seen \in SUBSET NameUniverse
    /\ fu_result = ""
    /\ InvIdle
    /\ RegIdle

\* find_unique_name(fu_name, fu_seen) is called
Allocate ==
    /\ fu_result = ""
    /\ fu_result' = find_unique_name(fu_name, fu_seen)
    /\ UNCHANGED <<fu_name, fu_seen, injVars, regVars>>

NextNames == Allocate

SpecNames == InitNames /\ [][NextNames]_vars

\* C4: find_unique_name(name, seen) returns name when name is not in seen, and
\* otherwise name_i for the smallest i >= 1 with name_i not in seen; the result is
\* never a member of seen.
C4_FindUniqueName ==
    fu_result # "" =>
        /\ fu_result \notin fu_seen
        /\ fu_name \notin fu_seen => fu_result = fu_name
        /\ fu_name \in fu_seen =>
             \E i \in 1..(Cardinality(fu_seen) + 1) :
                 /\ fu_result = suffixed(fu_name, i)
                 /\ \A j \in 1..(i - 1) : suffixed(fu_name, j) \in fu_seen

\* C4 witness: the name and its first suffix are taken, the second suffix is returned
C4_Witness ==
    /\ fu_name = "a"
    /\ {"a", "a_1"} \subseteq fu_seen
    /\ fu_result = "a_2"

-----------------------------------------------------------------------------
(* Claims about a session of several invocations *)

\* C11: in an invocation that starts after an earlier one was torn down, no
\* definition the earlier one injected is held by the request, listed by the
\* manager or found by a lookup of any name, and a name that an earlier injection
\* added to the closure is in the closure only while the current invocation has
\* a live injection of it.
C11_NoLeakAcrossInvocations ==
    \A i \in 1..Len(earlier) : \A j \in 1..Len(earlier[i]) :
        LET f == earlier[i][j]
        IN  /\ \A a \in Args : active_fixturedef(Req, a) # f.fd
            /\ \A a \in DOMAIN arg2fixturedefs : ~InList(arg2fixturedefs[a], f.fd)
            /\ \A a \in DOMAIN fixture_defs : fixture_defs[a] # f.fd
            /\ (f.add_fixturename /\ InList(names_closure, f.arg))
                   => LiveFor(f.arg) # <<>>

\* the second invocation looked up a name that the first one injected and added
\* to the closure
C11_Witness ==
    /\ Len(earlier) = 1
    /\ phase = "call"
    /\ \E j \in 1..Len(earlier[1]) :
           /\ earlier[1][j].add_fixturename
           /\ resolved.arg = earlier[1][j].arg

-----------------------------------------------------------------------------
(* Import of a module whose scope already holds names, decorating any object *)

\* the objects a decorator is applied to: a function and the integer 42
Objects == {"step_a", "42"}

\* whether obj can be called (TCallable, the type the decorator declares for func)
callable(obj) == obj \in {"step_a", "step_b"}

\* f"{StepNamePrefix.step_def}_{step_type}_{parser.name}" for a given step
\* named "the foo is bar"
TakenBase == step_def \o "_" \o GIVEN \o "_" \o "the foo is bar"

\* what the module has bound before its decorations run: its test function, and
\* possibly module-level values under the names a step would get
ImportScopes ==
    LET test == [name |-> "test_example", value |-> [kind |-> "function"]]
        other(n) == [name |-> n, value |-> [kind |-> "module value"]]
    IN  {<<test>>,
         <<test, other(TakenBase)>>,
         <<test, other(TakenBase), other(suffixed(TakenBase, 1))>>,
         <<test, other(suffixed(TakenBase, 1))>>}

InitImport ==
    /\ caller_locals \in ImportScopes
    /\ decorated = <<>>
    /\ returned = "None"
    /\ invoked = <<>>
    /\ match_calls = 0
    /\ step_count = 0
    /\ last_step = <<>>
    /\ InvIdle
    /\ FuIdle

NextImport ==
    \/ \E step_name \in StepNames, obj \in Objects : given(step_name, "None", obj)
    \/ \E step_name \in StepNames, obj \in Objects : when(step_name, "None", obj)
    \/ \E step_name \in StepNames, obj \in Objects : then(step_name, "None", obj)

SpecImport ==
    InitImport /\ [][NextImport]_vars

\* C12: no entry of the registry holds an object that cannot be called: a
\* decoration of such an object fails and registers nothing.
C12_NonCallableNotRegistered ==
    \A i \in 1..Len(caller_locals) :
        caller_locals[i].value.kind = "fixture"
            => callable(caller_locals[i].value.context.step_func)

\* C14: a decoration leaves every name the scope already binds, a step entry or
\* any other name, at its place with its value, and binds exactly one name that
\* was not bound before.
C14_RegistrationOnlyAdds ==
    [][\A type \in Types, n \in StepNames, obj \in Objects :
          Decorate(type, n, "None", obj) =>
              /\ Len(caller_locals') = Len(caller_locals) + 1
              /\ \A i \in 1..Len(caller_locals) : caller_locals'[i] = caller_locals[i]
              /\ caller_locals'[Len(caller_locals')].name \notin keys(caller_locals)
              /\ keys(caller_locals') =
                     keys(caller_locals) \cup {caller_locals'[Len(caller_locals')].name}
              /\ Cardinality(keys(caller_locals')) = Len(caller_locals')]_vars

\* C14 witness: the scope bound the step's base identifier and its first suffixed
\* form to other values before two steps of that identifier were registered
C14_Witness ==
    /\ Len(caller_locals) = 5
    /\ caller_locals[2] = [name |-> TakenBase, value |-> [kind |-> "module value"]]
    /\ caller_locals[3] = [name |-> suffixed(TakenBase, 1),
                           value |-> [kind |-> "module value"]]
    /\ caller_locals[4].name = suffixed(TakenBase, 2)
    /\ caller_locals[5].name = suffixed(TakenBase, 3)

-----------------------------------------------------------------------------
(* Claims about the bookkeeping of the runtime injector *)

\* how often request.fixturenames lists arg: as often as names_closure does, or
\* once when only request._fixture_defs has it as a key
fixturenames_count(r, arg) ==
    IF InList(r.names_closure, arg)
    THEN Len(SelectSeq(r.names_closure, LAMBDA n : n = arg))
    ELSE IF arg \in DOMAIN r.fixture_defs THEN 1 ELSE 0

\* C13: an injection lists its name among request.fixturenames once more than
\* before when the name was not listed and as often as before when it was; a
\* finalizer leaves the name unlisted exactly when the name was not listed right
\* before its injection.
C13_ReachableBookkeeping ==
    [][/\ \A arg \in Args, value \in Values :
              Inject(arg, value) =>
                  fixturenames_count(Req', arg) =
                      fixturenames_count(Req, arg)
                          + (IF arg \in fixturenames(Req) THEN 0 ELSE 1)
       /\ RunFinalizer =>
              LET f == finalizers[Len(finalizers)]
              IN  (f.arg \notin fixturenames(Req')) <=> f.add_fixturename]_vars

\* C15: no finalizer run in reverse order of registration raises, and the one
\* to run next finds its definition in the manager's list for its name and, if its
\* injection appended the name to the closure, the name in the closure.
C15_NoFinalizerFails ==
    /\ raised = <<>>
    /\ (phase = "teardown" /\ finalizers # <<>>) =>
           LET f == finalizers[Len(finalizers)]
           IN  /\ f.arg \in DOMAIN arg2fixturedefs
               /\ InList(arg2fixturedefs[f.arg], f.fd)
               /\ f.add_fixturename => InList(names_closure, f.arg)

\* C15 witness: the teardown of injections of foo, of another name and of foo
\* again is over, the first of them having added foo to the closure
C15_Witness ==
    /\ TornDown
    /\ Len(finished) = 3
    /\ finished[1].arg = "foo"
    /\ finished[2].arg # "foo"
    /\ finished[3].arg = "foo"
    /\ finished[3].add_fixturename

\* C16: between operations, for every name with an injection whose finalizer
\* has not run, request._fixture_defs[name] is the last element of the manager's
\* list for name and is the definition of the latest such injection.
C16_ActiveIsLatestLive ==
    \A a \in Args :
        LiveFor(a) # <<>> =>
            LET latest == LiveFor(a)[Len(LiveFor(a))].fd
            IN  /\ a \in DOMAIN fixture_defs
                /\ fixture_defs[a] = latest
                /\ a \in DOMAIN arg2fixturedefs
                /\ arg2fixturedefs[a] # <<>>
                /\ arg2fixturedefs[a][Len(arg2fixturedefs[a])] = latest

\* C16 witness: of two injections of foo the later has been finalized and the
\* earlier is live, with the injection of another name still live as well
C16_Witness ==
    /\ phase = "teardown"
    /\ Len(LiveFor("foo")) = 1
    /\ \E i \in 1..Len(finished) : finished[i].arg = "foo"
    /\ \E a \in Args \ {"foo"} : LiveFor(a) # <<>>

\* what a step on name must leave alone: for every other name, its definition in
\* the request, its list in the manager, and its places in the closure
OthersKept(name) ==
    /\ \A m \in Args \ {name} :
           /\ Entry(fixture_defs', m) = Entry(fixture_defs, m)
           /\ Entry(arg2fixturedefs', m) = Entry(arg2fixturedefs, m)
           /\ (m \in fixturenames(Req')) <=> (m \in fixturenames(Req))
    /\ SelectSeq(names_closure', LAMBDA n : n # name)
           = SelectSeq(names_closure, LAMBDA n : n # name)

\* C17: an injection of a name and the run of its finalizer leave, for every
\* other name, the request's definition, the manager's list, the membership in
\* the reachable names and the order among the other names of the closure as
\* they were.
C17_OnlyNameChanges ==
    [][/\ \A arg \in Args, value \in Values : Inject(arg, value) => OthersKept(arg)
       /\ RunFinalizer => OthersKept(finalizers[Len(finalizers)].arg)]_vars

\* C17 witness: a finalizer has run while another name is defined in the request
\* and in the manager and stands in the closure
C17_Witness ==
    /\ phase = "teardown"
    /\ finished # <<>>
    /\ \E m \in Args \ {finished[Len(finished)].arg} :
           /\ m \in DOMAIN fixture_defs
           /\ fixture_defs[m] # None
           /\ m \in DOMAIN arg2fixturedefs
           /\ arg2fixturedefs[m] # <<>>
           /\ InList(names_closure, m)
           /\ names_closure[Len(names_closure)] = m

====
